---------------------------- MODULE Spec2Model ----------------------------
(* A model of dev/Common.py: the utility functions of the module as       *)
(* operators computed the way the Python code computes them, and the      *)
(* file operations as actions on a small file system.                     *)
(*                                                                         *)
(* Python values are modelled as follows.                                  *)
(*   - a number is a reduced fraction <<p, q>> with q > 0 where a true    *)
(*     division produced it, and a TLA+ integer elsewhere;                 *)
(*   - a str that the code takes apart (text.split(), text.lower()) is a  *)
(*     sequence of one-character strings; a str that the code only        *)
(*     concatenates (a dictionary key) is a TLA+ string;                   *)
(*   - a list is a sequence; a dict is a sequence of <<key, value>> pairs *)
(*     with distinct keys, in insertion order;                             *)
(*   - the outcome of a call is a pair <<kind, value>>: "return" with the *)
(*     returned value, "raise" with the exception's name, "exit" with the *)
(*     process's exit status.                                              *)
EXTENDS Integers, Sequences, FiniteSets, TLC

VARIABLES
    last,         \* the last call made and its outcome:
                  \* <<function, arguments, <<kind, value>>>>
    dirs,         \* the directories that exist below the current one
    files,        \* path of each file that exists -> content (a sequence of units)
    log,          \* what the logger was handed, in order
    exit_status,  \* <<>> while the process runs, then <<status>>
    pc,           \* concurrent writers: writer -> position in its call
    pos,          \* concurrent writers: writer -> offset of its file object
    job           \* concurrent writers: writer -> <<function, output>>

vars == <<last, dirs, files, log, exit_status, pc, pos, job>>

(* ------------------------------ bounds -------------------------------- *)

MaxLen == 3        \* longest list handed to moving_average and chunk_list
MaxNum == 2        \* list elements are in 0..MaxNum, numerators and denominators in -MaxNum..MaxNum
MaxWin == 4        \* largest window_size and chunk_size
MaxText == 5       \* longest text, in characters

(* --------------------------- Python basics ---------------------------- *)

\* A call is <<function, arguments>> and an outcome <<kind, value>>.
Call(fn, args) == <<fn, args>>
Return(v) == <<"return", v>>
Raise(e) == <<"raise", e>>
Exit(status) == <<"exit", status>>
Kind(outcome) == outcome[1]
Val(outcome) == outcome[2]
None == "None"
NoCall == Call("none", <<>>)
NoRet == <<"none", None>>
Did(c, outcome) == <<c[1], c[2], outcome>>
call == <<last[1], last[2]>>
ret == last[3]

Min(a, b) == IF a < b THEN a ELSE b
Max(a, b) == IF a > b THEN a ELSE b
Abs(a) == IF a < 0 THEN -a ELSE a

RECURSIVE Gcd(_, _)
Gcd(a, b) == IF b = 0 THEN a ELSE Gcd(b, a % b)

\* The value of a quotient n / d, d # 0, as a reduced fraction.
Frac(n, d) ==
    LET g == Gcd(Abs(n), Abs(d))
        s == IF d < 0 THEN -1 ELSE 1
    IN  <<(s * n) \div g, (s * d) \div g>>

\* Python's n / d: ZeroDivisionError when d is 0.
TrueDiv(n, d) == IF d = 0 THEN Raise("ZeroDivisionError") ELSE Return(Frac(n, d))

\* Python's s[i:j] for i >= 0 and any j: a negative bound counts from the
\* end, and both are clamped to 0..len(s).
SliceBound(n, k) == IF k < 0 THEN Max(k + n, 0) ELSE Min(k, n)
Slice(s, i, j) ==
    LET a == SliceBound(Len(s), i)
        b == SliceBound(Len(s), j)
    IN  IF a >= b THEN <<>> ELSE SubSeq(s, a + 1, b)

\* Python's sum() of a list of integers.
RECURSIVE PySum(_)
PySum(s) == IF s = <<>> THEN 0 ELSE Head(s) + PySum(Tail(s))

\* len(range(start, stop, step)) for step # 0.
RangeLen(start, stop, step) ==
    IF step > 0
    THEN (IF stop > start THEN (stop - start + step - 1) \div step ELSE 0)
    ELSE (IF stop < start THEN (start - stop - step - 1) \div (-step) ELSE 0)

(* --------------------------- safe_divide ------------------------------ *)

safe_divide_unguarded(numerator, denominator) == TrueDiv(numerator, denominator)

\* return numerator / denominator if denominator != 0 else 0
safe_divide(numerator, denominator) ==
    IF denominator # 0 THEN TrueDiv(numerator, denominator) ELSE Return(<<0, 1>>)

(* -------------------------- moving_average ---------------------------- *)

\* The comprehension's elements for i = k, ..., n - 1, evaluated in order;
\* the first element that raises ends the evaluation.
RECURSIVE MovingAverageFrom(_, _, _, _)
MovingAverageFrom(data, window_size, k, n) ==
    IF k >= n THEN Return(<<>>)
    ELSE LET e == TrueDiv(PySum(Slice(data, k, k + window_size)), window_size)
         IN  IF Kind(e) = "raise" THEN e
             ELSE LET rest == MovingAverageFrom(data, window_size, k + 1, n)
                  IN  IF Kind(rest) = "raise" THEN rest
                      ELSE Return(<<Val(e)>> \o Val(rest))

moving_average_short(data, window_size) ==
    MovingAverageFrom(data, window_size, 0, Len(data) - window_size)

\* [sum(data[i:i+window_size]) / window_size
\*    for i in range(len(data) - window_size + 1)]
moving_average(data, window_size) ==
    MovingAverageFrom(data, window_size, 0, Len(data) - window_size + 1)

(* ---------------------------- chunk_list ------------------------------ *)

\* [lst[i:i + size] for i in start, start + step, ... (n values)]
RECURSIVE ChunksFrom(_, _, _, _, _)
ChunksFrom(lst, size, start, step, n) ==
    IF n = 0 THEN <<>>
    ELSE <<Slice(lst, start, start + size)>>
             \o ChunksFrom(lst, size, start + step, step, n - 1)

chunk_list_overlap(lst, chunk_size) ==
    IF chunk_size = 0 THEN Raise("ValueError")
    ELSE Return(ChunksFrom(lst, chunk_size + 1, 0, chunk_size,
                           RangeLen(0, Len(lst), chunk_size)))

\* [lst[i:i + chunk_size] for i in range(0, len(lst), chunk_size)];
\* range() raises ValueError for a step of 0.
chunk_list(lst, chunk_size) ==
    IF chunk_size = 0 THEN Raise("ValueError")
    ELSE Return(ChunksFrom(lst, chunk_size, 0, chunk_size,
                           RangeLen(0, Len(lst), chunk_size)))

(* -------------------------- text processing --------------------------- *)

Letters == {"a", "A"}
Whitespace == {" ", "\n"}
Chars == Letters \cup Whitespace

\* str.lower(), one character at a time.
LowerChar(c) == IF c = "A" THEN "a" ELSE c
Lower(s) == [i \in 1..Len(s) |-> LowerChar(s[i])]

\* str.split() with no separator: the maximal runs of non-whitespace
\* characters, in order. `word` is the run being read, `acc` the runs read.
RECURSIVE SplitFrom(_, _, _)
SplitFrom(text, word, acc) ==
    IF text = <<>>
    THEN (IF word = <<>> THEN acc ELSE Append(acc, word))
    ELSE IF Head(text) \in Whitespace
         THEN SplitFrom(Tail(text), <<>>,
                        IF word = <<>> THEN acc ELSE Append(acc, word))
         ELSE SplitFrom(Tail(text), Append(word, Head(text)), acc)
Split(text) == SplitFrom(text, <<>>, <<>>)

\* sep.join(words)
RECURSIVE Join(_, _)
Join(sep, words) ==
    IF words = <<>> THEN <<>>
    ELSE IF Len(words) = 1 THEN words[1]
    ELSE words[1] \o sep \o Join(sep, Tail(words))

InList(x, lst) == \E i \in 1..Len(lst) : lst[i] = x

normalize_text_keepcase(text) == Return(Join(<<" ">>, Split(text)))

\* ' '.join(text.lower().split())
normalize_text(text) == Return(Join(<<" ">>, Split(Lower(text))))

\* ' '.join([word for word in text.split() if word.lower() not in stopwords])
RECURSIVE NotStopwords(_, _)
NotStopwords(words, stopwords) ==
    IF words = <<>> THEN <<>>
    ELSE (IF ~InList(Lower(Head(words)), stopwords) THEN <<Head(words)>> ELSE <<>>)
             \o NotStopwords(Tail(words), stopwords)
remove_stopwords(text, stopwords) ==
    Return(Join(<<" ">>, NotStopwords(Split(text), stopwords)))

(* --------------------- the calls of the utilities --------------------- *)

RECURSIVE SeqsUpTo(_, _)
SeqsUpTo(S, n) ==
    IF n = 0 THEN {<<>>}
    ELSE LET shorter == SeqsUpTo(S, n - 1)
         IN  shorter \cup {Append(s, x) : s \in shorter, x \in S}

Nums == -MaxNum..MaxNum
Lists == SeqsUpTo(0..MaxNum, MaxLen)
Sizes == -1..MaxWin
Texts == SeqsUpTo(Chars, MaxText)
Words == {<<"a">>, <<"A">>, <<"a", "a">>, <<"A", "a">>}
StopLists == SeqsUpTo(Words, 2)

\* No file operation runs in the utilities' specification.
Running == <<>>           \* exit_status before the process ends
Exited(status) == <<status>>
Idle ==
    /\ dirs = {}
    /\ files = <<>>
    /\ log = <<>>
    /\ exit_status = Running
    /\ pc = <<>>
    /\ pos = <<>>
    /\ job = <<>>
IdleUnchanged == UNCHANGED <<dirs, files, log, exit_status, pc, pos, job>>

\* The utilities are pure and independent: a behaviour makes one call, with
\* any arguments of the bounded sets.
Init ==
    /\ last = Did(NoCall, NoRet)
    /\ Idle

CallSafeDivide ==
    /\ call = NoCall
    /\ \E numerator \in Nums, denominator \in Nums :
        /\ last' = Did(Call("safe_divide", <<numerator, denominator>>),
                       safe_divide(numerator, denominator))
        /\ IdleUnchanged

CallMovingAverage ==
    /\ call = NoCall
    /\ \E data \in Lists, window_size \in Sizes :
        /\ last' = Did(Call("moving_average", <<data, window_size>>),
                       moving_average(data, window_size))
        /\ IdleUnchanged

CallChunkList ==
    /\ call = NoCall
    /\ \E lst \in Lists, chunk_size \in Sizes :
        /\ last' = Did(Call("chunk_list", <<lst, chunk_size>>),
                       chunk_list(lst, chunk_size))
        /\ IdleUnchanged

CallNormalizeText ==
    /\ call = NoCall
    /\ \E text \in Texts :
        /\ last' = Did(Call("normalize_text", <<text>>),
                       normalize_text(text))
        /\ IdleUnchanged

CallRemoveStopwords ==
    /\ call = NoCall
    /\ \E text \in Texts, stopwords \in StopLists :
        /\ last' = Did(Call("remove_stopwords", <<text, stopwords>>),
                       remove_stopwords(text, stopwords))
        /\ IdleUnchanged

Next ==
    \/ CallSafeDivide
    \/ CallMovingAverage
    \/ CallChunkList
    \/ CallNormalizeText
    \/ CallRemoveStopwords

Spec == Init /\ [][Next]_vars

(* ------------------- properties of the utilities ---------------------- *)

Called(fn) == call[1] = fn
Returned == Kind(ret) = "return"

\* C9. safe_divide(numerator, 0) returns 0 and raises nothing, for every
\* numerator; safe_divide(numerator, denominator) returns the quotient
\* numerator / denominator for every denominator other than 0.
SafeDivideTotal ==
    Called("safe_divide") =>
        LET numerator == call[2][1]
            denominator == call[2][2]
        IN  /\ Returned
            /\ denominator = 0 => Val(ret) = <<0, 1>>
            /\ denominator # 0 =>
                  /\ Val(ret)[2] > 0
                  /\ Val(ret)[1] * denominator = numerator * Val(ret)[2]

SafeDivideByZeroSeen ==
    /\ Called("safe_divide")
    /\ call[2][1] # 0
    /\ call[2][2] = 0
    /\ ret = Return(<<0, 1>>)

\* The sum of data[lo], ..., data[hi] (1-based), by index.
RECURSIVE SumOver(_, _, _)
SumOver(data, lo, hi) == IF lo > hi THEN 0 ELSE data[lo] + SumOver(data, lo + 1, hi)

\* C7. For window_size >= 1, moving_average returns
\* max(0, len(data) - window_size + 1) elements, the one at index i being
\* the mean of data[i], ..., data[i + window_size - 1]; the result is empty
\* when window_size > len(data); for window_size = 0 the call fails with a
\* division by zero, whatever data is.
MovingAverageMeans ==
    Called("moving_average") =>
        LET data == call[2][1]
            window_size == call[2][2]
        IN  /\ window_size >= 1 =>
                  /\ Returned
                  /\ Len(Val(ret)) = Max(0, Len(data) - window_size + 1)
                  /\ \A i \in 1..Len(Val(ret)) :
                        /\ Val(ret)[i][2] > 0
                        /\ Val(ret)[i][1] * window_size
                             = Val(ret)[i][2] * SumOver(data, i, i + window_size - 1)
                  /\ window_size > Len(data) => Val(ret) = <<>>
            /\ window_size = 0 => ret = Raise("ZeroDivisionError")

MovingAverageSeen ==
    /\ Called("moving_average")
    /\ call[2] = << <<1, 2, 2>>, 2 >>
    /\ ret = Return(<< <<3, 2>>, <<2, 1>> >>)

RECURSIVE Concat(_)
Concat(chunks) == IF chunks = <<>> THEN <<>> ELSE Head(chunks) \o Concat(Tail(chunks))

\* C2. For a non-empty lst and chunk_size > 0, the chunks concatenated in
\* order are lst, every chunk but the last has chunk_size elements, and the
\* last has at least one and at most chunk_size.
ChunkListPartitions ==
    Called("chunk_list") =>
        LET lst == call[2][1]
            chunk_size == call[2][2]
        IN  (lst # <<>> /\ chunk_size > 0) =>
                /\ Returned
                /\ Val(ret) # <<>>
                /\ Concat(Val(ret)) = lst
                /\ \A i \in 1..(Len(Val(ret)) - 1) : Len(Val(ret)[i]) = chunk_size
                /\ Len(Val(ret)[Len(Val(ret))]) \in 1..chunk_size

ChunkListRemainderSeen ==
    /\ Called("chunk_list")
    /\ call[2] = << <<0, 1, 2>>, 2 >>
    /\ ret = Return(<< <<0, 1>>, <<2>> >>)

\* The whitespace-separated tokens of a text, stated by position: a token
\* starts at a non-whitespace character that is first or follows whitespace
\* and runs to the last non-whitespace character before the next
\* whitespace or the end.
TokenStarts(text) ==
    {i \in 1..Len(text) :
        text[i] \notin Whitespace /\ (i = 1 \/ text[i - 1] \in Whitespace)}
TokenEnd(text, i) ==
    CHOOSE j \in i..Len(text) :
        /\ \A k \in i..j : text[k] \notin Whitespace
        /\ j = Len(text) \/ text[j + 1] \in Whitespace
RECURSIVE Ascending(_)
Ascending(S) ==
    IF S = {} THEN <<>>
    ELSE LET m == CHOOSE x \in S : \A y \in S : x <= y
         IN  <<m>> \o Ascending(S \ {m})
Tokens(text) ==
    LET starts == Ascending(TokenStarts(text))
    IN  [k \in 1..Len(starts) |-> SubSeq(text, starts[k], TokenEnd(text, starts[k]))]

\* The tokens with one space between neighbours.
RECURSIVE Spaced(_)
Spaced(tokens) ==
    IF tokens = <<>> THEN <<>>
    ELSE IF Len(tokens) = 1 THEN tokens[1]
    ELSE tokens[1] \o <<" ">> \o Spaced(Tail(tokens))

\* C8. normalize_text(text) is the lowercased whitespace-separated tokens
\* of text with exactly one space between them: no two whitespace
\* characters in a row, none first, none last; and normalizing the result
\* again changes nothing.
NormalizeTextCanonical ==
    Called("normalize_text") =>
        LET text == call[2][1]
            tokens == Tokens(text)
            out == Val(ret)
        IN  /\ Returned
            /\ out = Spaced([k \in 1..Len(tokens) |-> Lower(tokens[k])])
            /\ \A i \in 1..Len(out) :
                  out[i] \in Whitespace =>
                      /\ out[i] = " "
                      /\ i # 1 /\ i # Len(out)
                      /\ out[i + 1] \notin Whitespace
            /\ normalize_text(out) = Return(out)

NormalizeTextSeen ==
    /\ Called("normalize_text")
    /\ call[2][1] = <<" ", "A", "\n", " ", "a">>
    /\ ret = Return(<<"a", " ", "a">>)

\* C5. remove_stopwords drops a token if and only if it matches some
\* element of stopwords case-insensitively, whatever the letter case of the
\* token and of the stopwords entries; the other tokens survive in order,
\* as spelled, joined by single spaces.
RemoveStopwordsCaseInsensitive ==
    Called("remove_stopwords") =>
        LET text == call[2][1]
            stopwords == call[2][2]
            tokens == Tokens(text)
            Dropped(k) ==
                \E j \in 1..Len(stopwords) : Lower(stopwords[j]) = Lower(tokens[k])
            kept == Ascending({k \in 1..Len(tokens) : ~Dropped(k)})
        IN  ret = Return(Spaced([n \in 1..Len(kept) |-> tokens[kept[n]]]))

(* ---------------------------- flatten_dict ---------------------------- *)

\* A value handed to flatten_dict is tagged: <<"int", n>> is a leaf and
\* <<"dict", pairs>> a mapping (isinstance(v, dict)).
IsDict(v) == v[1] = "dict"
Leaf(n) == <<"int", n>>
Dict(pairs) == <<"dict", pairs>>

\* dict(items): a key seen again keeps its first position and takes the
\* later value.
SetItem(pairs, k, v) ==
    IF \E i \in 1..Len(pairs) : pairs[i][1] = k
    THEN [i \in 1..Len(pairs) |-> IF pairs[i][1] = k THEN <<k, v>> ELSE pairs[i]]
    ELSE Append(pairs, <<k, v>>)
RECURSIVE DictOfItems(_, _)
DictOfItems(items, acc) ==
    IF items = <<>> THEN acc
    ELSE DictOfItems(Tail(items), SetItem(acc, Head(items)[1], Head(items)[2]))

\* f"{parent_key}{sep}{k}" if parent_key else k
NewKey(parent_key, sep, k) ==
    IF parent_key # "" THEN parent_key \o sep \o k ELSE k

\* The loop over d.items(), and the function: each calls the other.
RECURSIVE FlattenItems(_, _, _)
RECURSIVE flatten_dict(_, _, _)
FlattenItems(pairs, parent_key, sep) ==
    IF pairs = <<>> THEN <<>>
    ELSE LET k == Head(pairs)[1]
             v == Head(pairs)[2]
             new_key == NewKey(parent_key, sep, k)
         IN  (IF IsDict(v)
              THEN flatten_dict(v[2], new_key, sep)
              ELSE << <<new_key, v>> >>)
                 \o FlattenItems(Tail(pairs), parent_key, sep)
flatten_dict(d, parent_key, sep) ==
    DictOfItems(FlattenItems(d, parent_key, sep), <<>>)

Keys == {"", "a", "b"}
Seps == {"_", "."}
ParentKeys == {"", "p"}

\* The mappings of at most two entries with distinct keys in K and values
\* in V.
DictsOver(K, V) ==
    {<<>>} \cup {<< <<k, v>> >> : k \in K, v \in V}
           \cup {d \in {<< <<k1, v1>>, <<k2, v2>> >> :
                            k1 \in K, k2 \in K, v1 \in V, v2 \in V} :
                    d[1][1] # d[2][1]}

Leaves == {Leaf(1), Leaf(2)}
FlatDicts == DictsOver(Keys, Leaves)
\* flatten_dict({"a": {"b": 1, "c": {"d": 2}}}) is the documented example.
ExampleDict ==
    << <<"a", Dict(<< <<"b", Leaf(1)>>, <<"c", Dict(<< <<"d", Leaf(2)>> >>)>> >>)>> >>
NestedDicts ==
    DictsOver(Keys, Leaves \cup {Dict(d) : d \in FlatDicts}) \cup {ExampleDict}

CallFlattenDict ==
    /\ call = NoCall
    /\ \E d \in NestedDicts, parent_key \in ParentKeys, sep \in Seps :
        /\ last' = Did(Call("flatten_dict", <<d, parent_key, sep>>),
                       Return(flatten_dict(d, parent_key, sep)))
        /\ IdleUnchanged

SpecFlatten == Init /\ [][CallFlattenDict]_vars

\* The leaves of a mapping in depth-first order, each with the keys on the
\* path from the root to it.
RECURSIVE LeavesOf(_, _)
LeavesOf(pairs, path) ==
    IF pairs = <<>> THEN <<>>
    ELSE LET k == Head(pairs)[1]
             v == Head(pairs)[2]
         IN  (IF IsDict(v) THEN LeavesOf(v[2], Append(path, k))
              ELSE << <<Append(path, k), v>> >>)
                 \o LeavesOf(Tail(pairs), path)

RECURSIVE JoinKeys(_, _)
JoinKeys(path, sep) ==
    IF Len(path) = 1 THEN path[1]
    ELSE path[1] \o sep \o JoinKeys(Tail(path), sep)

\* C1. flatten_dict(d, '', sep) has exactly one entry per leaf of d, in
\* depth-first order, whose key is the keys on the path from the root to
\* the leaf joined by sep and whose value is the leaf.
FlattenOneEntryPerLeaf ==
    (Called("flatten_dict") /\ call[2][2] = "") =>
        LET d == call[2][1]
            sep == call[2][3]
            leaves == LeavesOf(d, <<>>)
        IN  ret = Return([i \in 1..Len(leaves) |->
                             <<JoinKeys(leaves[i][1], sep), leaves[i][2]>>])

(* --------------------------- JSON documents --------------------------- *)

\* Python values handed to json.dump are tagged like those of flatten_dict,
\* with <<"str", s>> and <<"list", items>> besides; the keys of a dict are
\* tagged values too. A file's content is a sequence of units: for a JSON
\* document its tokens, among them the line breaks with their indentation.
IntVal(n) == <<"int", n>>
StrVal(s) == <<"str", s>>
ListVal(items) == <<"list", items>>

Quote(s) == "\"" \o s \o "\""
RECURSIVE Indent(_)
Indent(level) == IF level = 0 THEN "\n" ELSE Indent(level - 1) \o "    "

\* json.dump turns a key that is an int into the string of its digits.
KeyString(k) == IF k[1] = "int" THEN ToString(k[2]) ELSE k[2]

\* json.dump(data, json_file, indent=4): the text written, as tokens.
RECURSIVE Encode(_, _)
RECURSIVE EncodeItems(_, _)
RECURSIVE EncodeMembers(_, _)
Encode(v, level) ==
    CASE v[1] = "int" -> <<ToString(v[2])>>
      [] v[1] = "str" -> <<Quote(v[2])>>
      [] v[1] = "list" ->
            IF v[2] = <<>> THEN <<"[", "]">>
            ELSE <<"[", Indent(level + 1)>> \o EncodeItems(v[2], level + 1)
                     \o <<Indent(level), "]">>
      [] v[1] = "dict" ->
            IF v[2] = <<>> THEN <<"{", "}">>
            ELSE <<"{", Indent(level + 1)>> \o EncodeMembers(v[2], level + 1)
                     \o <<Indent(level), "}">>
EncodeItems(items, level) ==
    Encode(Head(items), level)
        \o (IF Len(items) = 1 THEN <<>>
            ELSE <<",", Indent(level)>> \o EncodeItems(Tail(items), level))
EncodeMembers(pairs, level) ==
    <<Quote(KeyString(Head(pairs)[1])), ": ">> \o Encode(Head(pairs)[2], level)
        \o (IF Len(pairs) = 1 THEN <<>>
            ELSE <<",", Indent(level)>> \o EncodeMembers(Tail(pairs), level))
JsonDump(data) == Encode(data, 0)

\* The literals the decoder knows, in the bounded model.
DigitInts == 0..9
LiteralStrs == {"a", "1", "2"}
IndentTokens == {Indent(0), Indent(1), Indent(2), Indent(3)}
SkipSpace(toks) ==
    IF toks # <<>> /\ Head(toks) \in IndentTokens THEN Tail(toks) ELSE toks

\* json.load: a decoded value and the tokens left, <<"ok", value, rest>>,
\* or <<"err">> where the decoder raises JSONDecodeError. An object's
\* repeated key keeps its place and takes the last value.
Bad == <<"err">>
RECURSIVE Decode(_)
RECURSIVE DecodeItems(_, _)
RECURSIVE DecodeMembers(_, _)
Decode(toks0) ==
    LET toks == SkipSpace(toks0)
    IN  IF toks = <<>> THEN Bad
        ELSE LET t == Head(toks)
                 rest == SkipSpace(Tail(toks))
             IN  CASE t = "[" ->
                        IF rest # <<>> /\ Head(rest) = "]"
                        THEN <<"ok", ListVal(<<>>), Tail(rest)>>
                        ELSE DecodeItems(rest, <<>>)
                   [] t = "{" ->
                        IF rest # <<>> /\ Head(rest) = "}"
                        THEN <<"ok", Dict(<<>>), Tail(rest)>>
                        ELSE DecodeMembers(rest, <<>>)
                   [] \E n \in DigitInts : ToString(n) = t ->
                        <<"ok", IntVal(CHOOSE n \in DigitInts : ToString(n) = t), Tail(toks)>>
                   [] \E x \in LiteralStrs : Quote(x) = t ->
                        <<"ok", StrVal(CHOOSE x \in LiteralStrs : Quote(x) = t), Tail(toks)>>
                   [] OTHER -> Bad
DecodeItems(toks, acc) ==
    LET item == Decode(toks)
    IN  IF item[1] = "err" THEN Bad
        ELSE LET rest == SkipSpace(item[3])
                 items == Append(acc, item[2])
             IN  IF rest = <<>> THEN Bad
                 ELSE IF Head(rest) = "]" THEN <<"ok", ListVal(items), Tail(rest)>>
                 ELSE IF Head(rest) = "," THEN DecodeItems(Tail(rest), items)
                 ELSE Bad
DecodeMembers(toks0, acc) ==
    LET toks == SkipSpace(toks0)
    IN  IF Len(toks) < 2 \/ toks[2] # ": " THEN Bad
        ELSE IF ~\E x \in LiteralStrs : Quote(x) = toks[1] THEN Bad
        ELSE LET key == StrVal(CHOOSE x \in LiteralStrs : Quote(x) = toks[1])
                 member == Decode(Tail(Tail(toks)))
             IN  IF member[1] = "err" THEN Bad
                 ELSE LET rest == SkipSpace(member[3])
                          pairs == SetItem(acc, key, member[2])
                      IN  IF rest = <<>> THEN Bad
                          ELSE IF Head(rest) = "}" THEN <<"ok", Dict(pairs), Tail(rest)>>
                          ELSE IF Head(rest) = "," THEN DecodeMembers(Tail(rest), pairs)
                          ELSE Bad

\* json.load(file): the document's value, with nothing but space after it.
JsonLoad(content) ==
    LET doc == Decode(content)
    IN  IF doc[1] = "err" \/ SkipSpace(doc[3]) # <<>>
        THEN Raise("JSONDecodeError")
        ELSE Return(doc[2])

(* -------------------------- file operations --------------------------- *)

\* A path is the sequence of its names; os.path.dirname drops the last,
\* and the dirname of a bare file name is the empty path ''.
FilePaths == {<<"f">>, <<"d", "f">>, <<"d", "e", "f">>}
dirname(path) == SubSeq(path, 1, Len(path) - 1)

\* The current directory exists under its own name, not under ''.
Exists(ds, name) == name # <<>> /\ name \in ds

\* open(path, 'r') and open(path, 'w') need the file's directory.
CanOpen(ds, path) == dirname(path) = <<>> \/ Exists(ds, dirname(path))

\* os.makedirs(name, exist_ok=True): <<"ok", directories>>, or <<"err">>
\* where it raises FileNotFoundError, which it does for '' (os.mkdir('')).
RECURSIVE makedirs(_, _)
makedirs(ds, name) ==
    IF name = <<>> THEN <<"err">>
    ELSE LET head == dirname(name)
             made == IF head # <<>> /\ ~Exists(ds, head)
                     THEN makedirs(ds, head)
                     ELSE <<"ok", ds>>
         IN  IF made[1] = "err" THEN made
             ELSE <<"ok", made[2] \cup {name}>>

WriteFile(fs, path, content) ==
    [p \in DOMAIN fs \cup {path} |-> IF p = path THEN content ELSE fs[p]]

ErrorRecord(path) == <<"error", "JSON file not found", path>>
InfoRecord(path) == <<"info", "Text successfully written", path>>

MaxLog == 2        \* most records logged before the program stops writing text

Atoms == {IntVal(1), StrVal("a")}
DictKeys == {IntVal(1), StrVal("1"), StrVal("a")}
SmallLists(V) ==
    {<<>>} \cup {<<v>> : v \in V} \cup {<<v1, v2>> : v1 \in V, v2 \in V}
FlatData ==
    Atoms \cup {ListVal(l) : l \in SmallLists(Atoms)}
          \cup {Dict(d) : d \in DictsOver(DictKeys, Atoms)}
JsonData ==
    FlatData \cup {ListVal(<<v>>) : v \in FlatData}
             \cup {Dict(<< <<k, v>> >>) : k \in DictKeys, v \in FlatData}
\* json.dump of each value, computed once.
Encoded == [data \in JsonData |-> JsonDump(data)]
FileTexts == {<<>>, <<"1">>, <<"h", "i">>}

\* The program works on one path: another path's file changes nothing.
OnlyFile(path) == DOMAIN files \subseteq {path}

InitFile ==
    /\ last = Did(NoCall, NoRet)
    /\ dirs \in {{}, {<<"d">>}, {<<"d">>, <<"d", "e">>}}
    /\ files = <<>>
    /\ log = <<>>
    /\ exit_status = Running
    /\ pc = <<>>
    /\ pos = <<>>
    /\ job = <<>>

OpenJsonNoExit ==
    /\ exit_status = Running
    /\ \E path \in FilePaths :
        /\ OnlyFile(path)
        /\ IF CanOpen(dirs, path) /\ path \in DOMAIN files
           THEN /\ last' = Did(Call("open_json", <<path>>), JsonLoad(files[path]))
                /\ UNCHANGED log
           ELSE /\ last' = Did(Call("open_json", <<path>>), Return(None))
                /\ log' = Append(log, ErrorRecord(path))
        /\ UNCHANGED <<dirs, files, exit_status, pc, pos, job>>

\* open_json(path): a missing file (or directory) is FileNotFoundError,
\* which is logged and ends the process; JSONDecodeError is not caught.
OpenJson ==
    /\ exit_status = Running
    /\ \E path \in FilePaths :
        /\ OnlyFile(path)
        /\ IF CanOpen(dirs, path) /\ path \in DOMAIN files
           THEN /\ last' = Did(Call("open_json", <<path>>), JsonLoad(files[path]))
                /\ UNCHANGED <<log, exit_status>>
           ELSE /\ last' = Did(Call("open_json", <<path>>), Exit(1))
                /\ log' = Append(log, ErrorRecord(path))
                /\ exit_status' = Exited(1)
        /\ UNCHANGED <<dirs, files, pc, pos, job>>

AppendFile(fs, path, content) ==
    WriteFile(fs, path, (IF path \in DOMAIN fs THEN fs[path] ELSE <<>>) \o content)
DumpToJsonAppending ==
    /\ exit_status = Running
    /\ \E path \in FilePaths, data \in JsonData :
        /\ OnlyFile(path)
        /\ IF CanOpen(dirs, path)
           THEN /\ files' = AppendFile(files, path, Encoded[data])
                /\ last' = Did(Call("dump_to_json", <<path, data>>), Return(None))
           ELSE /\ last' = Did(Call("dump_to_json", <<path, data>>),
                               Raise("FileNotFoundError"))
                /\ UNCHANGED files
        /\ UNCHANGED <<dirs, log, exit_status, pc, pos, job>>

\* dump_to_json(path, data): open(path, 'w') raises FileNotFoundError when
\* the directory is missing; else the file holds the encoded data.
DumpToJson ==
    /\ exit_status = Running
    /\ \E path \in FilePaths, data \in JsonData :
        /\ OnlyFile(path)
        /\ IF CanOpen(dirs, path)
           THEN /\ files' = WriteFile(files, path, Encoded[data])
                /\ last' = Did(Call("dump_to_json", <<path, data>>), Return(None))
           ELSE /\ last' = Did(Call("dump_to_json", <<path, data>>),
                               Raise("FileNotFoundError"))
                /\ UNCHANGED files
        /\ UNCHANGED <<dirs, log, exit_status, pc, pos, job>>

\* dump_to_text(text, path): makedirs, then the write, then the log record.
DumpToText ==
    /\ exit_status = Running
    /\ Len(log) < MaxLog
    /\ \E path \in FilePaths, text \in FileTexts :
        /\ OnlyFile(path)
        /\ LET made == makedirs(dirs, dirname(path))
           IN  IF made[1] = "ok"
               THEN /\ dirs' = made[2]
                    /\ files' = WriteFile(files, path, text)
                    /\ log' = Append(log, InfoRecord(path))
                    /\ last' = Did(Call("dump_to_text", <<text, path>>), Return(None))
               ELSE /\ last' = Did(Call("dump_to_text", <<text, path>>),
                                   Raise("FileNotFoundError"))
                    /\ UNCHANGED <<dirs, files, log>>
        /\ UNCHANGED <<exit_status, pc, pos, job>>

NextFile ==
    \/ OpenJson
    \/ DumpToJson
    \/ DumpToText

SpecFile == InitFile /\ [][NextFile]_vars

(* ----------------- properties of the file operations ------------------ *)

\* Python's ==: lists compare in order, dicts by key whatever the order.
RECURSIVE PyEq(_, _)
PyEq(a, b) ==
    /\ a[1] = b[1]
    /\ CASE a[1] = "list" ->
              /\ Len(a[2]) = Len(b[2])
              /\ \A i \in 1..Len(a[2]) : PyEq(a[2][i], b[2][i])
         [] a[1] = "dict" ->
              /\ Len(a[2]) = Len(b[2])
              /\ \A i \in 1..Len(a[2]) :
                    \E j \in 1..Len(b[2]) :
                        /\ a[2][i][1] = b[2][j][1]
                        /\ PyEq(a[2][i][2], b[2][j][2])
         [] OTHER -> a[2] = b[2]

\* A value whose mappings, at every depth, have string keys only.
RECURSIVE StringKeyed(_)
StringKeyed(v) ==
    CASE v[1] = "list" -> \A i \in 1..Len(v[2]) : StringKeyed(v[2][i])
      [] v[1] = "dict" ->
            \A i \in 1..Len(v[2]) : v[2][i][1][1] = "str" /\ StringKeyed(v[2][i][2])
      [] OTHER -> TRUE

\* A step that loads the path the step before it dumped data to.
LoadsWhatWasDumped ==
    /\ last[1] = "dump_to_json"
    /\ Kind(ret) = "return"
    /\ last'[1] = "open_json"
    /\ last'[2][1] = last[2][1]

\* C3 as stated. dump_to_json(path, data) followed by open_json(path)
\* returns a structure equal to data, for any JSON-serializable data, the
\* mappings with integer keys included.
RoundTripAnyData ==
    [][LoadsWhatWasDumped =>
          (Kind(ret') = "return" /\ PyEq(Val(ret'), last[2][2]))]_vars

\* C3 as amended. dump_to_json(path, data) followed by open_json(path)
\* returns a structure equal to data when every mapping in data has string
\* keys only.
RoundTripStringKeyed ==
    [][(LoadsWhatWasDumped /\ StringKeyed(last[2][2])) =>
          (Kind(ret') = "return" /\ PyEq(Val(ret'), last[2][2]))]_vars

NestedDocument == Dict(<< <<StrVal("a"), ListVal(<<IntVal(1), StrVal("a")>>)>> >>)
RoundTripSeen ==
    /\ Called("open_json")
    /\ call[2][1] \in DOMAIN files
    /\ files[call[2][1]] = JsonDump(NestedDocument)
    /\ ret = Return(NestedDocument)

\* The directories above and including name.
Ancestors(name) == {SubSeq(name, 1, n) : n \in 1..Len(name)}

\* C4. dump_to_text(text, path) creates the missing parent directories of
\* path, leaves the file holding exactly text and logs a success message,
\* for every path: a bare file name, a path whose directories exist, a path
\* whose directories are missing. It never fails over the directories.
DumpToTextAnyPath ==
    Called("dump_to_text") =>
        LET text == call[2][1]
            path == call[2][2]
        IN  /\ ret = Return(None)
            /\ Ancestors(dirname(path)) \subseteq dirs
            /\ path \in DOMAIN files
            /\ files[path] = text
            /\ log # <<>>
            /\ log[Len(log)] = InfoRecord(path)

\* The content is a document json.dump writes.
ValidJson(content) == \E data \in JsonData : Encoded[data] = content

\* C6. open_json(path) with no file at path logs an error and then ends the
\* process with a non-zero status: it returns nothing and raises no
\* FileNotFoundError. With a file holding valid JSON it returns the parsed
\* value, logs nothing and leaves the process running.
OpenJsonFatalOnMissing ==
    [][last'[1] = "open_json" =>
          LET path == last'[2][1]
          IN  /\ path \notin DOMAIN files =>
                    /\ ret' = Exit(1)
                    /\ log' = Append(log, ErrorRecord(path))
                    /\ exit_status' = Exited(1)
              /\ (path \in DOMAIN files /\ ValidJson(files[path])) =>
                    /\ Kind(ret') = "return"
                    /\ \A data \in JsonData :
                          (StringKeyed(data) /\ Encoded[data] = files[path])
                              => Val(ret') = data
                    /\ log' = log
                    /\ exit_status' = Running]_vars

OpenJsonMissingSeen ==
    /\ Called("open_json")
    /\ call[2][1] = <<"d", "f">>
    /\ files = <<>>
    /\ ret = Exit(1)
    /\ exit_status = Exited(1)
    /\ log = <<ErrorRecord(<<"d", "f">>)>>

(* ------------------------- concurrent writers ------------------------- *)

\* Two calls of dump_to_json or dump_to_text run at once on one path, each
\* with a file object of its own. A call's steps are the system calls it
\* makes: makedirs (dump_to_text), open(path, 'w'), the writes and the
\* close. The file object buffers what the call writes: a full buffer is
\* written out at once, the rest when the `with` block closes the file.
Writers == {"w1", "w2"}
SharedPath == <<"d", "f">>
BufferSize == 2    \* units a file object buffers (io.DEFAULT_BUFFER_SIZE, scaled)

Hole == "\\0"
\* pwrite: the chunk lands at the offset; a gap before it reads as zeros.
WriteAt(content, offset, chunk) ==
    [i \in 1..Max(Len(content), offset + Len(chunk)) |->
        IF i > offset /\ i <= offset + Len(chunk) THEN chunk[i - offset]
        ELSE IF i <= Len(content) THEN content[i]
        ELSE Hole]

\* What each call writes: a JSON document or a text.
JobSet ==
    {<<"dump_to_json", JsonDump(data)>> :
        data \in {IntVal(1), Dict(<<>>), ListVal(<<IntVal(1)>>)}}
      \cup {<<"dump_to_text", text>> : text \in {<<"h", "i">>, <<"h", "i", "!">>}}
Fn(w) == job[w][1]
Out(w) == job[w][2]
Pending(w) == Len(Out(w)) - pos[w]

InitWriters ==
    /\ last = Did(NoCall, NoRet)
    /\ dirs \in {{}, {<<"d">>}}
    /\ files \in {<<>>, WriteFile(<<>>, SharedPath, <<"o", "l", "d">>)}
    /\ SharedPath \in DOMAIN files => <<"d">> \in dirs
    /\ log = <<>>
    /\ exit_status = Running
    /\ pc = [w \in Writers |-> "start"]
    /\ pos = [w \in Writers |-> 0]
    /\ job \in [Writers -> JobSet]

\* os.makedirs(os.path.dirname(path), exist_ok=True)
MakeDirs(w) ==
    /\ pc[w] = "start"
    /\ Fn(w) = "dump_to_text"
    /\ LET made == makedirs(dirs, dirname(SharedPath))
       IN  IF made[1] = "ok"
           THEN dirs' = made[2] /\ pc' = [pc EXCEPT ![w] = "open"]
           ELSE pc' = [pc EXCEPT ![w] = "failed"] /\ UNCHANGED dirs
    /\ UNCHANGED <<last, files, log, exit_status, pos, job>>

ReadyToOpen(w) ==
    \/ pc[w] = "start" /\ Fn(w) = "dump_to_json"
    \/ pc[w] = "open"

OpenKeeping(w) ==
    /\ ReadyToOpen(w)
    /\ IF CanOpen(dirs, SharedPath)
       THEN /\ files' = AppendFile(files, SharedPath, <<>>)
            /\ pc' = [pc EXCEPT ![w] = "writing"]
       ELSE /\ pc' = [pc EXCEPT ![w] = "failed"]
            /\ UNCHANGED files
    /\ UNCHANGED <<last, dirs, log, exit_status, pos, job>>

\* open(path, 'w'): creates or truncates the file itself, whoever else has
\* it open; FileNotFoundError when the directory is missing.
Open(w) ==
    /\ ReadyToOpen(w)
    /\ IF CanOpen(dirs, SharedPath)
       THEN /\ files' = WriteFile(files, SharedPath, <<>>)
            /\ pc' = [pc EXCEPT ![w] = "writing"]
       ELSE /\ pc' = [pc EXCEPT ![w] = "failed"]
            /\ UNCHANGED files
    /\ UNCHANGED <<last, dirs, log, exit_status, pos, job>>

\* A full buffer is written at the file object's offset.
Flush(w) ==
    /\ pc[w] = "writing"
    /\ Pending(w) > BufferSize
    /\ files' = WriteFile(files, SharedPath,
                   WriteAt(files[SharedPath], pos[w],
                           SubSeq(Out(w), pos[w] + 1, pos[w] + BufferSize)))
    /\ pos' = [pos EXCEPT ![w] = pos[w] + BufferSize]
    /\ UNCHANGED <<last, dirs, log, exit_status, pc, job>>

\* Leaving the `with` block writes what is buffered and closes the file.
Close(w) ==
    /\ pc[w] = "writing"
    /\ Pending(w) <= BufferSize
    /\ files' = WriteFile(files, SharedPath,
                   WriteAt(files[SharedPath], pos[w],
                           SubSeq(Out(w), pos[w] + 1, Len(Out(w)))))
    /\ pos' = [pos EXCEPT ![w] = Len(Out(w))]
    /\ pc' = [pc EXCEPT ![w] = IF Fn(w) = "dump_to_text" THEN "log" ELSE "done"]
    /\ UNCHANGED <<last, dirs, log, exit_status, job>>

\* logger.info(f"Text successfully written to {path}")
LogWritten(w) ==
    /\ pc[w] = "log"
    /\ log' = Append(log, InfoRecord(SharedPath))
    /\ pc' = [pc EXCEPT ![w] = "done"]
    /\ UNCHANGED <<last, dirs, files, exit_status, pos, job>>

NextWriters ==
    \E w \in Writers :
        \/ MakeDirs(w)
        \/ Open(w)
        \/ Flush(w)
        \/ Close(w)
        \/ LogWritten(w)

SpecWriters == InitWriters /\ [][NextWriters]_vars

\* C10. dump_to_json and dump_to_text take no lock and write the file in
\* place: a call's open empties the file at the path whatever the other
\* call has written, and at any time every unit of the file is a gap or a
\* unit one of the calls wrote at that place. (That two finished calls can
\* leave a file that is neither call's output is what TornFileSeen reaches.)
WritersUnprotected ==
    [][/\ \A w \in Writers :
             (pc[w] # "writing" /\ pc'[w] = "writing") => files'[SharedPath] = <<>>
       /\ (\E w \in Writers : pc'[w] \in {"writing", "log", "done"}) =>
             \A i \in 1..Len(files'[SharedPath]) :
                \/ files'[SharedPath][i] = Hole
                \/ \E w \in Writers :
                      /\ pos'[w] >= i
                      /\ files'[SharedPath][i] = Out(w)[i]]_vars

TornFileSeen ==
    /\ \A w \in Writers : pc[w] = "done"
    /\ \A w \in Writers : files[SharedPath] # Out(w)
    /\ \E i, j \in 1..Len(files[SharedPath]) :
          /\ files[SharedPath][i] = Out("w1")[i]
          /\ files[SharedPath][j] = Out("w2")[j]
          /\ files[SharedPath][i] # files[SharedPath][j]

=============================================================================
